---- MODULE Spec2Model ----
(***************************************************************************)
(* Model of custom_components/inim_cloud/alarm_control_panel.py: one       *)
(* InimAlarmControlPanel entity, the coordinator snapshot it reads, and    *)
(* the three command handlers with their two suspension points (the        *)
(* activate_scenario call and the coordinator refresh).                    *)
(***************************************************************************)
EXTENDS Integers, Sequences, FiniteSets, TLC

VARIABLES
    coordinator_data,       \* coordinator.data: PyNone or PyList(<<device, ...>>)
    _device_id,             \* self._device_id
    _scenarios,             \* self._scenarios
    _disarm_scenario_id,    \* self._disarm_scenario_id
    _arm_away_scenario_id,  \* self._arm_away_scenario_id
    _arm_home_scenario_id,  \* self._arm_home_scenario_id
    pc,                     \* where the running handler is suspended, or "idle"
    command,                \* role of the running / last handler, "none" before any
    api_calls,              \* activate_scenario calls issued by the running / last handler
    refresh_requests,       \* coordinator.async_refresh() calls issued by that handler
    errors_logged,          \* _LOGGER.error calls made by that handler
    result,                 \* "none", "pending", "returned" or "raised"
    shown                   \* value of the last alarm_state read of the current snapshot

entity == <<_device_id, _scenarios, _disarm_scenario_id,
            _arm_away_scenario_id, _arm_home_scenario_id>>
handler == <<pc, command, api_calls, refresh_requests, errors_logged, result>>
vars == <<coordinator_data, entity, handler, shown>>

----------------------------------------------------------------------------
(* Python values *)

PyNone == [ty |-> "none"]
PyStr(s) == [ty |-> "str", str |-> s]
PyInt(n) == [ty |-> "int", int |-> n]
PyList(s) == [ty |-> "list", list |-> s]

\* dict.get(key, default)
Get(d, key, default) == IF key \in DOMAIN d THEN d[key] ELSE default

\* str(value) for the values an identifier takes
Str(v) == IF v.ty = "int" THEN ToString(v.int) ELSE v.str

\* bool(value)
Truthy(v) ==
    CASE v.ty = "none" -> FALSE
      [] v.ty = "int" -> v.int # 0
      [] v.ty = "str" -> v.str # ""
      [] v.ty = "list" -> v.list # <<>>

----------------------------------------------------------------------------
(* Scenario names are character sequences, so that str.lower() acts on them *)

Upper == <<"A","B","C","D","E","F","G","H","I","J","K","L","M",
           "N","O","P","Q","R","S","T","U","V","W","X","Y","Z">>
LowerCase == <<"a","b","c","d","e","f","g","h","i","j","k","l","m",
               "n","o","p","q","r","s","t","u","v","w","x","y","z">>

LowerChar(c) ==
    IF \E i \in 1..Len(Upper) : Upper[i] = c
    THEN LowerCase[CHOOSE i \in 1..Len(Upper) : Upper[i] = c]
    ELSE c

\* str.lower()
Lower(name) == [i \in 1..Len(name) |-> LowerChar(name[i])]

ARM_AWAY_NAMES == {<<"a","r","m">>, <<"a","w","a","y">>}
ARM_HOME_NAMES == {<<"s","t","a","y">>, <<"h","o","m","e">>,
                   <<"p","a","r","t","i","a","l">>}
DISARM_NAMES == {<<"d","i","s","a","r","m">>, <<"o","f","f">>}

----------------------------------------------------------------------------
(* AlarmControlPanelState and the id-to-state table *)

ARMED_AWAY == "armed_away"
DISARMED == "disarmed"
ARMED_HOME == "armed_home"
StateNone == "None"        \* alarm_state returning None
NoRead == "no_read"        \* no alarm_state read of the current snapshot yet

\* the table with the ids of the two armed states exchanged
SCENARIO_STATE_MAP_swapped == [k \in {"0", "1", "2"} |->
    CASE k = "0" -> ARMED_HOME
      [] k = "1" -> DISARMED
      [] k = "2" -> ARMED_AWAY]

SCENARIO_STATE_MAP == [k \in {"0", "1", "2"} |->
    CASE k = "0" -> ARMED_AWAY
      [] k = "1" -> DISARMED
      [] k = "2" -> ARMED_HOME]

----------------------------------------------------------------------------
(* InimAlarmControlPanel.__init__ : the role mapping *)

NoMapping == [disarm |-> PyNone, arm_away |-> PyNone, arm_home |-> PyNone]

\* the iteration without .lower()
MapScenario_case_sensitive(m, scenario) ==
    LET scenario_id == Get(scenario, "id", PyNone)
        scenario_name == Get(scenario, "name", <<>>)
    IN  IF scenario_name \in ARM_AWAY_NAMES
          THEN [m EXCEPT !.arm_away = scenario_id]
        ELSE IF scenario_name \in ARM_HOME_NAMES
          THEN [m EXCEPT !.arm_home = scenario_id]
        ELSE IF scenario_name \in DISARM_NAMES
          THEN [m EXCEPT !.disarm = scenario_id]
        ELSE m

\* one iteration of "for scenario in self._scenarios"
MapScenario(m, scenario) ==
    LET scenario_id == Get(scenario, "id", PyNone)
        scenario_name == Lower(Get(scenario, "name", <<>>))
    IN  IF scenario_name \in ARM_AWAY_NAMES
          THEN [m EXCEPT !.arm_away = scenario_id]
        ELSE IF scenario_name \in ARM_HOME_NAMES
          THEN [m EXCEPT !.arm_home = scenario_id]
        ELSE IF scenario_name \in DISARM_NAMES
          THEN [m EXCEPT !.disarm = scenario_id]
        ELSE m

RECURSIVE ScanScenarios(_, _, _)
ScanScenarios(list, i, m) ==
    IF i > Len(list) THEN m
    ELSE ScanScenarios(list, i + 1, MapScenario(m, list[i]))

\* the three role fields after construction from a scenario list
__init__(list) == ScanScenarios(list, 1, NoMapping)

----------------------------------------------------------------------------
(* State read *)

\* the lookup that takes the first device whatever its id
_find_device_in_coordinator_any_id ==
    IF ~Truthy(coordinator_data) THEN PyNone
    ELSE coordinator_data.list[1]

_find_device_in_coordinator ==
    IF ~Truthy(coordinator_data) THEN PyNone
    ELSE LET devices == coordinator_data.list
             hits == {i \in 1..Len(devices) :
                         Get(devices[i], "id", PyNone) = _device_id}
         IN  IF hits = {} THEN PyNone
             ELSE devices[CHOOSE i \in hits : \A j \in hits : i <= j]

\* the state read that shows the commanded state once activate_scenario
\* has returned, before any refresh
alarm_state_optimistic ==
    LET device == _find_device_in_coordinator
    IN  IF device = PyNone THEN StateNone
        ELSE IF pc = "refresh_try"
          THEN CASE command = "disarm" -> DISARMED
                 [] command = "arm_home" -> ARMED_HOME
                 [] command = "arm_away" -> ARMED_AWAY
        ELSE LET active_scenario == Get(device, "active_scenario", PyNone)
                 mapped == /\ active_scenario # PyNone
                           /\ Str(active_scenario) \in DOMAIN SCENARIO_STATE_MAP
             IN  IF mapped THEN SCENARIO_STATE_MAP[Str(active_scenario)]
                 ELSE DISARMED

\* the state read that recognises the entity's own role ids first
alarm_state_by_role ==
    LET device == _find_device_in_coordinator
    IN  IF device = PyNone THEN StateNone
        ELSE LET active_scenario == Get(device, "active_scenario", PyNone)
                 mapped == /\ active_scenario # PyNone
                           /\ Str(active_scenario) \in DOMAIN SCENARIO_STATE_MAP
             IN  IF active_scenario # PyNone /\ active_scenario = _arm_away_scenario_id
                   THEN ARMED_AWAY
                 ELSE IF active_scenario # PyNone /\ active_scenario = _arm_home_scenario_id
                   THEN ARMED_HOME
                 ELSE IF mapped THEN SCENARIO_STATE_MAP[Str(active_scenario)]
                 ELSE DISARMED

alarm_state ==
    LET device == _find_device_in_coordinator
    IN  IF device = PyNone THEN StateNone
        ELSE LET active_scenario == Get(device, "active_scenario", PyNone)
                 mapped == /\ active_scenario # PyNone
                           /\ Str(active_scenario) \in DOMAIN SCENARIO_STATE_MAP
             IN  IF mapped THEN SCENARIO_STATE_MAP[Str(active_scenario)]
                 ELSE DISARMED

----------------------------------------------------------------------------
(* Inputs *)

MaxScenarios == 2     \* longest scenario list enumerated at construction
MaxDevices == 2       \* longest snapshot delivered by the coordinator
MaxScenarioId == 5    \* largest numeric active_scenario reported

SeqsUpTo(S, n) == UNION {[1..k -> S] : k \in 0..n}

N_Arm == <<"A","r","m">>
N_AWAY == <<"A","W","A","Y">>
N_away == <<"a","w","a","y">>
N_Off == <<"O","f","f">>
N_Partial == <<"P","a","r","t","i","a","l">>
N_stay == <<"s","t","a","y">>
N_disarm == <<"d","i","s","a","r","m">>
N_armed == <<"a","r","m","e","d">>

Scenario(id, name) == [id |-> id, name |-> name]
Device(id, active, list) ==
    [id |-> PyStr(id), active_scenario |-> active, scenarios |-> list]

ScenarioRecords ==
    { Scenario(PyStr("5"), N_Arm),
      Scenario(PyInt(0), N_AWAY),
      Scenario(PyNone, N_away),
      [name |-> N_Off],
      Scenario(PyStr("2"), N_Partial),
      Scenario(PyStr("3"), N_stay),
      Scenario(PyStr("1"), N_disarm),
      Scenario(PyStr("7"), N_armed),
      [id |-> PyStr("8")] }

ScenarioLists == SeqsUpTo(ScenarioRecords, MaxScenarios)

StdScenarios == << Scenario(PyStr("0"), N_away),
                   Scenario(PyStr("1"), N_Off),
                   Scenario(PyStr("2"), N_Partial) >>
AltScenarios == << Scenario(PyStr("5"), N_Arm),
                   Scenario(PyInt(0), N_stay) >>

\* the devices of the runtime snapshots: the entity's own device with mapped
\* and unmapped active scenarios, with a scenario list of other ids, another
\* device, and a record without id
DeviceRecords ==
    { Device("dev1", PyStr("0"), StdScenarios),
      Device("dev1", PyInt(2), StdScenarios),
      Device("dev1", PyStr("5"), StdScenarios),
      [id |-> PyStr("dev1"), scenarios |-> AltScenarios],
      [id |-> PyStr("dev2"), active_scenario |-> PyStr("2")],
      [active_scenario |-> PyStr("0")] }

\* every snapshot of at most MaxDevices devices, and the absent snapshot
Snapshots ==
    {PyNone} \cup {PyList(s) : s \in SeqsUpTo(DeviceRecords, MaxDevices)}

\* the values active_scenario takes: null, numbers, their strings, other text
ActiveScenarioValues ==
    {PyNone, PyStr(""), PyStr("away")}
    \cup {PyInt(n) : n \in 0..MaxScenarioId}
    \cup {PyStr(ToString(n)) : n \in 0..MaxScenarioId}

\* one device in each of these, alone or behind another device
ReadSnapshots ==
    {PyNone, PyList(<<>>)}
    \cup {PyList(<<Device("dev1", a, StdScenarios)>>) : a \in ActiveScenarioValues}
    \cup {PyList(<<[id |-> PyStr("dev2"), active_scenario |-> PyStr("2")],
                   Device("dev1", a, StdScenarios)>>) : a \in ActiveScenarioValues}

\* one device carrying each scenario list
SetupSnapshots ==
    {PyList(<<Device("dev1", PyStr("1"), l)>>) : l \in ScenarioLists}

\* the snapshots the coordinator delivers after such a setup
ChangedSnapshots ==
    { PyNone, PyList(<<>>),
      PyList(<<Device("dev1", PyStr("5"), AltScenarios)>>),
      PyList(<<Device("dev1", PyInt(0), <<>>)>>) }

----------------------------------------------------------------------------
(* async_setup_entry: the entity built for one device of the first snapshot *)

InitOver(snapshots) ==
    \E data \in snapshots :
        /\ Truthy(data)
        /\ \E i \in 1..Len(data.list) :
             LET device == data.list[i] IN
             /\ "id" \in DOMAIN device
             /\ coordinator_data = data
             /\ _device_id = device.id
             /\ _scenarios = Get(device, "scenarios", <<>>)
             /\ _disarm_scenario_id = __init__(Get(device, "scenarios", <<>>)).disarm
             /\ _arm_away_scenario_id = __init__(Get(device, "scenarios", <<>>)).arm_away
             /\ _arm_home_scenario_id = __init__(Get(device, "scenarios", <<>>)).arm_home
        /\ pc = "idle"
        /\ command = "none"
        /\ api_calls = <<>>
        /\ refresh_requests = 0
        /\ errors_logged = 0
        /\ result = "none"
        /\ shown = NoRead

----------------------------------------------------------------------------
(* Command handlers, up to their first suspension point *)

\* the body shared by the three handlers: "if <role id> is not None: try:
\* await activate_scenario(...)" or else the error log
Dispatch(role, scenario_id, resolved) ==
    /\ pc = "idle"
    /\ command' = role
    /\ refresh_requests' = 0
    /\ IF resolved
         THEN /\ api_calls' = <<[device_id |-> _device_id,
                                 scenario_id |-> scenario_id]>>
              /\ errors_logged' = 0
              /\ result' = "pending"
              /\ pc' = "activate"
         ELSE /\ api_calls' = <<>>
              /\ errors_logged' = 1
              /\ result' = "returned"
              /\ pc' = "idle"
    /\ UNCHANGED <<coordinator_data, entity, shown>>

\* the disarm handler without its "is not None" test
async_alarm_disarm_unguarded ==
    Dispatch("disarm", _disarm_scenario_id, TRUE)

async_alarm_disarm ==
    Dispatch("disarm", _disarm_scenario_id, _disarm_scenario_id # PyNone)

\* the arm-home handler taking the id from the scenario list of the
\* device's current record instead of the field set at construction
async_alarm_arm_home_recomputed ==
    LET device == _find_device_in_coordinator
        current == IF device = PyNone THEN PyNone
                   ELSE __init__(Get(device, "scenarios", <<>>)).arm_home
    IN  Dispatch("arm_home", current, current # PyNone)

async_alarm_arm_home ==
    Dispatch("arm_home", _arm_home_scenario_id, _arm_home_scenario_id # PyNone)

\* the arm-away handler testing "if id:" instead of "if id is not None:"
async_alarm_arm_away_truthy ==
    Dispatch("arm_away", _arm_away_scenario_id, Truthy(_arm_away_scenario_id))

async_alarm_arm_away ==
    Dispatch("arm_away", _arm_away_scenario_id, _arm_away_scenario_id # PyNone)

----------------------------------------------------------------------------
(* The handlers' continuations *)

\* activate_scenario returned: the refresh of the try block is requested
activate_scenario_returns ==
    /\ pc = "activate"
    /\ refresh_requests' = refresh_requests + 1
    /\ pc' = "refresh_try"
    /\ UNCHANGED <<coordinator_data, entity, command, api_calls,
                   errors_logged, result, shown>>

\* activate_scenario raised: except Exception logs and requests a refresh
activate_scenario_raises ==
    /\ pc = "activate"
    /\ errors_logged' = errors_logged + 1
    /\ refresh_requests' = refresh_requests + 1
    /\ pc' = "refresh_except"
    /\ UNCHANGED <<coordinator_data, entity, command, api_calls, result, shown>>

\* either refresh returned, having replaced the snapshot: the handler returns
async_refresh_returns(snapshots) ==
    /\ pc \in {"refresh_try", "refresh_except"}
    /\ \E data \in snapshots : coordinator_data' = data
    /\ shown' = NoRead
    /\ result' = "returned"
    /\ pc' = "idle"
    /\ UNCHANGED <<entity, command, api_calls, refresh_requests, errors_logged>>

\* the refresh of the try block raised: the same except clause catches it,
\* logs and requests a refresh again
async_refresh_raises_in_try ==
    /\ pc = "refresh_try"
    /\ errors_logged' = errors_logged + 1
    /\ refresh_requests' = refresh_requests + 1
    /\ pc' = "refresh_except"
    /\ UNCHANGED <<coordinator_data, entity, command, api_calls, result, shown>>

\* the refresh of the except clause raised: nothing catches it
async_refresh_raises_in_except ==
    /\ pc = "refresh_except"
    /\ result' = "raised"
    /\ pc' = "idle"
    /\ UNCHANGED <<coordinator_data, entity, command, api_calls,
                   refresh_requests, errors_logged, shown>>

----------------------------------------------------------------------------
(* The coordinator's own polling, and the host reading the state *)

Poll(snapshots) ==
    /\ \E data \in snapshots : coordinator_data' = data
    /\ shown' = NoRead
    /\ UNCHANGED <<entity, handler>>

StateRead ==
    /\ shown' = alarm_state
    /\ UNCHANGED <<coordinator_data, entity, handler>>

NextOver(snapshots) ==
    \/ async_alarm_disarm
    \/ async_alarm_arm_home
    \/ async_alarm_arm_away
    \/ activate_scenario_returns
    \/ activate_scenario_raises
    \/ async_refresh_returns(snapshots)
    \/ async_refresh_raises_in_try
    \/ async_refresh_raises_in_except
    \/ Poll(snapshots)
    \/ StateRead

\* runtime: every snapshot, entities of the devices in them
Init == InitOver(Snapshots)
Next == NextOver(Snapshots)
Spec == Init /\ [][Next]_vars

\* state read: every active_scenario value
ReadInit == InitOver(ReadSnapshots)
ReadNext == NextOver(ReadSnapshots)
ReadSpec == ReadInit /\ [][ReadNext]_vars

\* setup: every scenario list, a few later snapshots
SetupInit == InitOver(SetupSnapshots)
SetupNext == NextOver(ChangedSnapshots)
SetupSpec == SetupInit /\ [][SetupNext]_vars

----------------------------------------------------------------------------
(* Vocabulary used by the properties *)

Roles == {"disarm", "arm_home", "arm_away"}

RoleId(role) ==
    CASE role = "disarm" -> _disarm_scenario_id
      [] role = "arm_home" -> _arm_home_scenario_id
      [] role = "arm_away" -> _arm_away_scenario_id

RoleNames(role) ==
    CASE role = "disarm" -> DISARM_NAMES
      [] role = "arm_home" -> ARM_HOME_NAMES
      [] role = "arm_away" -> ARM_AWAY_NAMES

\* the handler for some role has been invoked and has returned or raised
Finished == result \in {"returned", "raised"}

\* name equals word up to the case of its letters
SameIgnoringCase(name, word) ==
    /\ Len(name) = Len(word)
    /\ \A i \in 1..Len(name) :
          \/ name[i] = word[i]
          \/ \E k \in 1..Len(Upper) : Upper[k] = name[i] /\ LowerCase[k] = word[i]

\* positions of the construction-time scenarios whose name is in the role's vocabulary
Matching(role) ==
    {i \in 1..Len(_scenarios) :
        \E word \in RoleNames(role) :
            SameIgnoringCase(Get(_scenarios[i], "name", <<>>), word)}

\* id of the last matching scenario, PyNone when none matches
LastMatchId(role) ==
    IF Matching(role) = {} THEN PyNone
    ELSE LET last == CHOOSE i \in Matching(role) : \A j \in Matching(role) : j <= i
         IN  Get(_scenarios[last], "id", PyNone)

\* positions of the snapshot's records that carry the entity's device id
Records ==
    IF coordinator_data = PyNone THEN {}
    ELSE {i \in 1..Len(coordinator_data.list) :
             /\ "id" \in DOMAIN coordinator_data.list[i]
             /\ coordinator_data.list[i].id = _device_id}

Present == Records # {}

\* active_scenario of the first such record, PyNone when null or missing
Active ==
    LET first == CHOOSE i \in Records : \A j \in Records : i <= j
        record == coordinator_data.list[first]
    IN  IF "active_scenario" \in DOMAIN record THEN record.active_scenario
        ELSE PyNone

\* the literal table of the documentation
TableState(active) ==
    IF active \in {PyStr("0"), PyInt(0)} THEN ARMED_AWAY
    ELSE IF active \in {PyStr("1"), PyInt(1)} THEN DISARMED
    ELSE IF active \in {PyStr("2"), PyInt(2)} THEN ARMED_HOME
    ELSE DISARMED

----------------------------------------------------------------------------
(* C1: a handler that attempted activate_scenario issues exactly one       *)
(* refresh request, whatever the outcome of the activation and of the      *)
(* refresh, and none before activate_scenario has returned or failed.      *)
C1_ExactlyOneRefresh ==
    /\ pc = "activate" => refresh_requests = 0
    /\ (Finished /\ api_calls # <<>>) => refresh_requests = 1

(* C2: no error propagates out of a command handler, whatever the          *)
(* outcomes of activate_scenario and of the refresh calls.                 *)
C2_NoErrorPropagates ==
    result # "raised"

(* C3: a command whose role id was not resolved at setup calls neither     *)
(* activate_scenario nor the refresh, returns normally, and logs one error.*)
C3_UnresolvedIsNoOp ==
    \A role \in Roles :
        (command = role /\ RoleId(role) = PyNone) =>
            /\ pc = "idle"
            /\ api_calls = <<>>
            /\ refresh_requests = 0
            /\ result = "returned"
            /\ errors_logged = 1

C3_Witness ==
    /\ command = "disarm"
    /\ _disarm_scenario_id = PyNone
    /\ _arm_away_scenario_id # PyNone
    /\ result = "returned"
    /\ errors_logged = 1

(* C4: for a device present in the snapshot, a state read returns the      *)
(* literal table applied to the stringified active_scenario: "0" or 0      *)
(* ARMED_AWAY, "1" or 1 DISARMED, "2" or 2 ARMED_HOME, anything else,      *)
(* null and missing included, DISARMED.                                    *)
C4_StateTable ==
    (shown # NoRead /\ Present) => shown = TableState(Active)

C4_Witness ==
    /\ Present
    /\ Active = PyInt(2)
    /\ shown = ARMED_HOME

(* C5: a state read returns None when no record of the snapshot carries    *)
(* the entity's device id (empty and absent snapshots included), and one   *)
(* of the three panel states, never None, when one does.                   *)
C5_UnknownIffMissing ==
    shown # NoRead =>
        /\ ~Present => shown = StateNone
        /\ Present => shown \in {ARMED_AWAY, DISARMED, ARMED_HOME}

C5_Witness ==
    /\ shown = StateNone
    /\ coordinator_data # PyNone
    /\ coordinator_data.list # <<>>
    /\ ~Present

(* C6: each role field equals the id of the last scenario of the           *)
(* construction list whose name is, up to case, exactly a word of the      *)
(* role's vocabulary, and is None when no scenario matches.                *)
C6_LastExactMatch ==
    \A role \in Roles : RoleId(role) = LastMatchId(role)

C6_Witness ==
    /\ _scenarios = <<Scenario(PyStr("5"), N_Arm), Scenario(PyInt(0), N_AWAY)>>
    /\ _arm_away_scenario_id = PyInt(0)
    /\ _arm_home_scenario_id = PyNone
    /\ _disarm_scenario_id = PyNone

(* C7: after any refreshes and commands the role fields are still those    *)
(* computed from the construction-time scenario list, and every            *)
(* activate_scenario call carries the entity's device id and the id        *)
(* mapped to the command's role at construction.                           *)
C7_MappingFixed ==
    /\ \A role \in Roles : RoleId(role) = __init__(_scenarios)[role]
    /\ \A k \in 1..Len(api_calls) :
          /\ api_calls[k].device_id = _device_id
          /\ api_calls[k].scenario_id = __init__(_scenarios)[command]

C7_Witness ==
    /\ command = "arm_home"
    /\ api_calls = <<[device_id |-> _device_id, scenario_id |-> PyStr("2")]>>
    /\ Present
    /\ coordinator_data.list[1].scenarios = AltScenarios

(* C8: a state read repeated with no snapshot replacement in between       *)
(* returns the same value, whatever commands were issued, succeeded or     *)
(* failed meanwhile.                                                       *)
C8_NoOptimisticUpdate ==
    shown # NoRead => alarm_state = shown

C8_Witness ==
    /\ shown = ARMED_AWAY
    /\ command = "disarm"
    /\ pc = "refresh_try"

(* C9 as stated: a command issues activate_scenario if and only if some    *)
(* scenario of the construction list has a name in the role's vocabulary.  *)
C9_CallIffNameMatched ==
    \A role \in Roles :
        command = role => (api_calls # <<>> <=> Matching(role) # {})

(* C9 amended: a command issues activate_scenario if and only if some      *)
(* scenario matched the role and the last matching one has a non-null id.  *)
C9_CallIffLastMatchHasId ==
    \A role \in Roles :
        command = role => (api_calls # <<>> <=> LastMatchId(role) # PyNone)

C9_Witness ==
    /\ command = "arm_away"
    /\ Matching("arm_away") # {}
    /\ LastMatchId("arm_away") = PyNone
    /\ api_calls = <<>>
    /\ result = "returned"

(* C10: the arm-away command calls activate_scenario with the mapped id    *)
(* even when that id does not stringify to "0", yet whenever the snapshot  *)
(* reports that id as active a state read does not return ARMED_AWAY, and  *)
(* returns DISARMED when the id is outside 0/1/2; likewise arm-home with   *)
(* an id other than "2" and ARMED_HOME.                                    *)
C10_TableIgnoresRoles ==
    /\ \A role \in {"arm_away", "arm_home"} :
          (command = role /\ RoleId(role) # PyNone) =>
              api_calls = <<[device_id |-> _device_id, scenario_id |-> RoleId(role)]>>
    /\ \A role \in {"arm_away", "arm_home"} :
          LET id == RoleId(role)
              key == IF role = "arm_away" THEN "0" ELSE "2"
              state == IF role = "arm_away" THEN ARMED_AWAY ELSE ARMED_HOME
          IN  ( /\ id # PyNone
                /\ Str(id) # key
                /\ Present
                /\ Active # PyNone
                /\ Str(Active) = Str(id)
                /\ shown # NoRead )
              => /\ shown # state
                 /\ Str(id) \notin {"0", "1", "2"} => shown = DISARMED

C10_Witness ==
    /\ command = "arm_away"
    /\ api_calls = <<[device_id |-> _device_id, scenario_id |-> PyStr("5")]>>
    /\ result = "returned"
    /\ Present
    /\ Active = PyStr("5")
    /\ shown = DISARMED

====
